---- MODULE Spec2Model ----
(***************************************************************************)
(* A model of dicom_numpy/combine_slices.py: combine_slices and the        *)
(* validators, sorter and assemblers it calls.                             *)
(*                                                                         *)
(* Reals are exact: direction cosines and pixel spacings are integers in   *)
(* units of 1/Scale, positions are integers (mm), sort keys are integers   *)
(* in units of 1/Scale^2, the entries of the affine transform are products *)
(* of reduced fractions.  Floating-point rounding is not modelled.         *)
(*                                                                         *)
(* Exceptions are modelled by their kind.  DicomImportException is one     *)
(* class in the code; the model names each raise site by the category the  *)
(* specification gives it (EmptyInput, GeometryMismatch,                   *)
(* NonOrthogonalOrientation, InvalidDirectionCosine, MissingSlices).       *)
(* Python's own exceptions keep their names (TypeError, ValueError,        *)
(* IndexError, AttributeError).                                            *)
(***************************************************************************)
EXTENDS Integers, Sequences, FiniteSets, TLC

VARIABLES slice_datasets, pc, outcome, raised_in, warnings, voxels, transform

vars == <<slice_datasets, pc, outcome, raised_in, warnings, voxels, transform>>

\* One unit of a direction cosine or of a pixel spacing is 1/Scale.
Scale == 10 * 10 * 10

---------------------------------------------------------------------------
(* Attribute values.  getattr(dataset, name, None) yields None, an int, a  *)
(* string (a sequence of one-character strings) or a numeric sequence.     *)

None == [t |-> "none", v |-> 0]
NoneSeq == [t |-> "none", v |-> <<>>]
IntV(n) == [t |-> "int", v |-> n]
StrV(s) == [t |-> "str", v |-> s]
SeqV(s) == [t |-> "seq", v |-> s]

Abs(x) == IF x < 0 THEN -x ELSE x

RECURSIVE GCD(_, _)
GCD(a, b) == IF b = 0 THEN a ELSE GCD(b, a % b)

\* A reduced fraction n/d, d > 0.
Rat(n, d) ==
    LET g == GCD(Abs(n), d)
    IN  [num |-> n \div g, den |-> d \div g]

\* The product a*b of two reduced fractions, kept as its two factors: the
\* product of their numerators need not fit a machine integer.
Times(a, b) == [x |-> a, y |-> b]
Real(n) == Times(Rat(n, 1), Rat(1, 1))

Sign(n) == IF n < 0 THEN -1 ELSE IF n = 0 THEN 0 ELSE 1

\* The product in lowest terms, still as factors: (n1*n2)/(d1*d2) with the
\* numerators positive and the sign apart.
Lowest(p) ==
    LET g1 == GCD(Abs(p.x.num), p.y.den)
        g2 == GCD(Abs(p.y.num), p.x.den)
    IN  [sign |-> Sign(p.x.num) * Sign(p.y.num),
         n1 |-> Abs(p.x.num) \div g1, n2 |-> Abs(p.y.num) \div g2,
         d1 |-> p.x.den \div g2, d2 |-> p.y.den \div g1]

\* Two products are the same number: n1*n2 = m1*m2 iff n1/m1 = m2/n2.
SameNumber(p, q) ==
    LET a == Lowest(p)
        b == Lowest(q)
    IN  /\ a.sign = b.sign
        /\ a.sign # 0 =>
              /\ Rat(a.n1, b.n1) = Rat(b.n2, a.n2)
              /\ Rat(a.d1, b.d1) = Rat(b.d2, a.d2)

ZeroColumn(m, c) == \A i \in 1..3 : SameNumber(m[i][c], Real(0))

SameMatrix(a, b) == \A i, j \in 1..4 : SameNumber(a[i][j], b[i][j])

Digits == {"0", "1", "2", "3", "4", "5", "6", "7", "8", "9"}

DigitValue(ch) ==
    CASE ch = "0" -> 0 [] ch = "1" -> 1 [] ch = "2" -> 2 [] ch = "3" -> 3
      [] ch = "4" -> 4 [] ch = "5" -> 5 [] ch = "6" -> 6 [] ch = "7" -> 7
      [] ch = "8" -> 8 [] ch = "9" -> 9

\* is_float(val): float(val) does not raise ValueError.  An element of a
\* numeric sequence converts; a character converts when it is a digit.
is_float(kind, el) == IF kind = "str" THEN el \in Digits ELSE TRUE

\* is_iterable(val): iter(val) does not raise TypeError.
is_iterable(val) == val.t \in {"str", "seq"}

\* float(el), in units of 1/Scale.
FloatOf(kind, el) == IF kind = "str" THEN DigitValue(el) * Scale ELSE el

\* error_margin = 0.001, in units of 1/Scale.
error_margin == Scale \div 1000

\* Python's == between two attribute values or two elements of them.
PyEq(k1, x1, k2, x2) == k1 = k2 /\ (k1 = "none" \/ x1 = x2)

\* One turn of the loop of _lsts_roughly_equal: "next" (go on), "False"
\* (return False) or "ValueError" (float(lst2_el) raised).
ElementStep(k1, el1, k2, el2) ==
    IF is_float(k1, el1)
    THEN IF ~is_float(k2, el2) THEN "ValueError"
         ELSE IF FloatOf(k1, el1) - error_margin <= FloatOf(k2, el2)
                 /\ FloatOf(k2, el2) <= FloatOf(k1, el1) + error_margin
              THEN "next" ELSE "False"
    ELSE IF PyEq(k1, el1, k2, el2) THEN "next" ELSE "False"

RECURSIVE ElementLoop(_, _, _)
ElementLoop(lst1, lst2, i) ==
    IF i > Len(lst1.v) THEN "True"
    ELSE LET s == ElementStep(lst1.t, lst1.v[i], lst2.t, lst2.v[i])
         IN  IF s = "next" THEN ElementLoop(lst1, lst2, i + 1) ELSE s

\* _lsts_roughly_equal(lst1, lst2): "True", "False", or the exception raised.
lsts_roughly_equal(lst1, lst2) ==
    IF ~is_iterable(lst1)
    THEN IF PyEq(lst1.t, lst1.v, lst2.t, lst2.v) THEN "True" ELSE "False"
    ELSE IF ~is_iterable(lst2) THEN "TypeError"
    ELSE IF Len(lst1.v) # Len(lst2.v) THEN "False"
    ELSE ElementLoop(lst1, lst2, 1)

\* _slice_attribute_equal(slice_datasets, property_name): "ok", or what it
\* raised at the first slice (after the first) that does not compare equal.
RECURSIVE AttributeLoop(_, _, _)
AttributeLoop(datasets, property_name, i) ==
    IF i > Len(datasets) THEN "ok"
    ELSE LET r == lsts_roughly_equal(datasets[i][property_name],
                                     datasets[1][property_name])
         IN  CASE r = "True" -> AttributeLoop(datasets, property_name, i + 1)
               [] r = "False" -> "GeometryMismatch"
               [] OTHER -> r

slice_attribute_equal(datasets, property_name) ==
    IF property_name = "SeriesInstanceUID" THEN "ok"
    ELSE AttributeLoop(datasets, property_name, 2)

invariant_properties ==
    << "Modality", "SOPClassUID", "SeriesInstanceUID", "Rows", "Columns",
       "ImageOrientationPatient", "PixelSpacing", "PixelRepresentation",
       "BitsAllocated", "BitsStored", "HighBit" >>

\* The loop over invariant_properties: the first property that raises decides.
RECURSIVE PropertyLoop(_, _)
PropertyLoop(datasets, p) ==
    IF p > Len(invariant_properties) THEN "ok"
    ELSE LET r == slice_attribute_equal(datasets, invariant_properties[p])
         IN  IF r = "ok" THEN PropertyLoop(datasets, p + 1) ELSE r

---------------------------------------------------------------------------
(* Orientation.                                                            *)

Dot(a, b) == a[1] * b[1] + a[2] * b[2] + a[3] * b[3]

Cross(a, b) ==
    << a[2] * b[3] - a[3] * b[2],
       a[3] * b[1] - a[1] * b[3],
       a[1] * b[2] - a[2] * b[1] >>

\* _extract_cosines(image_orientation).  The row and column cosines are in
\* units of 1/Scale, the slice cosine in units of 1/Scale^2.
extract_cosines(image_orientation) ==
    LET row_cosine == SubSeq(image_orientation, 1, 3)
        column_cosine == SubSeq(image_orientation, 4, 6)
    IN  [row_cosine |-> row_cosine,
         column_cosine |-> column_cosine,
         slice_cosine |-> Cross(row_cosine, column_cosine)]

\* The tolerances of _validate_image_orientation, as 1/tolerance.
RaiseTolInv == 10000
WarnTolInv == 100000000

CeilDiv(a, b) == (a + b - 1) \div b

\* utils.isclose(a, b, abs_tol): |a - b| <= abs_tol, for a and b in units of
\* 1/Scale^2 and abs_tol = 1/tolInv.  The left side is an integer, so the
\* floor of Scale^2/tolInv decides.
isclose(a, b, tolInv) == Abs(a - b) <= (Scale * Scale) \div tolInv

\* utils.isclose(a, 1.0, abs_tol) for a >= 0 given by its square aSq (in
\* units of 1/Scale^2): |a - 1| <= t  iff  (1 - t)^2 <= a^2 <= (1 + t)^2.
\* With K = aSq - Scale^2, T = tolInv and S2 = Scale^2 this is
\*   K*T <= 2*S2 + S2/T   and   -K*T <= 2*S2 - S2/T,
\* decided on integers by the floor and the ceiling of S2/T.
isclose_root(aSq, tolInv) ==
    LET S2 == Scale * Scale
        K == aSq - S2
    IN  /\ K <= (2 * S2 + (S2 \div tolInv)) \div tolInv
        /\ -K <= (2 * S2 - CeilDiv(S2, tolInv)) \div tolInv

almost_zero(value, tolInv) == isclose(value, 0, tolInv)

\* _almost_one(np.linalg.norm(v), abs_tol), with the norm given by its square.
almost_one(normSq, tolInv) == isclose_root(normSq, tolInv)

\* _validate_image_orientation(image_orientation): what it raises ("ok" when
\* it returns) and the warnings it has logged by then.
\* A validator that checks the magnitudes before the orthogonality.
validate_magnitude_first(image_orientation) ==
    LET cos == extract_cosines(image_orientation)
        dot == Dot(cos.row_cosine, cos.column_cosine)
        rowSq == Dot(cos.row_cosine, cos.row_cosine)
        colSq == Dot(cos.column_cosine, cos.column_cosine)
        w1 == IF almost_zero(dot, WarnTolInv) THEN {} ELSE {"orthogonal"}
        w2 == IF almost_one(rowSq, WarnTolInv) THEN {} ELSE {"row_magnitude"}
        w3 == IF almost_one(colSq, WarnTolInv) THEN {} ELSE {"column_magnitude"}
    IN  IF ~almost_one(rowSq, RaiseTolInv)
        THEN [exc |-> "InvalidDirectionCosine", warnings |-> {}]
        ELSE IF ~almost_one(colSq, RaiseTolInv)
        THEN [exc |-> "InvalidDirectionCosine", warnings |-> w2]
        ELSE IF ~almost_zero(dot, RaiseTolInv)
        THEN [exc |-> "NonOrthogonalOrientation", warnings |-> w2 \cup w3]
        ELSE [exc |-> "ok", warnings |-> w1 \cup w2 \cup w3]

\* _validate_image_orientation(image_orientation).
validate_image_orientation(image_orientation) ==
    LET cos == extract_cosines(image_orientation)
        dot == Dot(cos.row_cosine, cos.column_cosine)
        rowSq == Dot(cos.row_cosine, cos.row_cosine)
        colSq == Dot(cos.column_cosine, cos.column_cosine)
        w1 == IF almost_zero(dot, WarnTolInv) THEN {} ELSE {"orthogonal"}
        w2 == IF almost_one(rowSq, WarnTolInv) THEN {} ELSE {"row_magnitude"}
        w3 == IF almost_one(colSq, WarnTolInv) THEN {} ELSE {"column_magnitude"}
    IN  IF ~almost_zero(dot, RaiseTolInv)
        THEN [exc |-> "NonOrthogonalOrientation", warnings |-> {}]
        ELSE IF ~almost_one(rowSq, RaiseTolInv)
        THEN [exc |-> "InvalidDirectionCosine", warnings |-> w1]
        ELSE IF ~almost_one(colSq, RaiseTolInv)
        THEN [exc |-> "InvalidDirectionCosine", warnings |-> w1 \cup w2]
        ELSE [exc |-> "ok", warnings |-> w1 \cup w2 \cup w3]

---------------------------------------------------------------------------
(* Positions, spacing and sorting.                                         *)

\* _slice_positions(slice_datasets): the sort keys, in units of 1/Scale^2.
\* A dataset without the attribute raises AttributeError.
slice_positions(datasets) ==
    IF datasets[1].ImageOrientationPatient.t = "none"
    THEN [exc |-> "AttributeError", val |-> <<>>]
    ELSE LET cos == extract_cosines(datasets[1].ImageOrientationPatient.v)
         IN  [exc |-> "ok",
              val |-> [i \in 1..Len(datasets) |->
                         Dot(cos.slice_cosine, datasets[i].ImagePositionPatient)]]

\* Where x goes in the ascending sequence s: after every element <= x.
CountLeq(s, x) == Cardinality({j \in 1..Len(s) : s[j] <= x})

RECURSIVE SortedInts(_)
\* sorted(list of numbers)
SortedInts(s) ==
    IF Len(s) = 0 THEN <<>>
    ELSE LET rest == SortedInts(SubSeq(s, 1, Len(s) - 1))
             x == s[Len(s)]
             p == CountLeq(rest, x)
         IN  SubSeq(rest, 1, p) \o <<x>> \o SubSeq(rest, p + 1, Len(rest))

\* np.diff
Diff(s) == [i \in 1..(Len(s) - 1) |-> s[i + 1] - s[i]]

RECURSIVE SumSeq(_)
SumSeq(s) == IF Len(s) = 0 THEN 0 ELSE s[1] + SumSeq(Tail(s))

\* The relative tolerances of _check_for_missing_slices, as 1/rtol.
WarnRtolInv == 100000
RaiseRtolInv == 10

\* np.allclose(a, b, atol=0, rtol=1/rtolInv) for a sequence a and a number
\* b: every |a[i] - b| <= rtol * |b|.
AllClose(a, b, rtolInv) ==
    \A i \in 1..Len(a) : Abs(a[i] - b) <= Abs(b) \div rtolInv

\* A spacing check that compares every difference with the mean difference.
check_against_mean(positions) ==
    LET slice_positions_diffs == Diff(SortedInts(positions))
        n == Len(slice_positions_diffs)
        scaled == [i \in 1..n |-> slice_positions_diffs[i] * n]
    IN  IF n = 0
        THEN [exc |-> "IndexError", warnings |-> {}]
        ELSE LET w == IF AllClose(scaled, SumSeq(slice_positions_diffs), WarnRtolInv)
                      THEN {} ELSE {"non_uniform_spacing"}
             IN  IF ~AllClose(scaled, SumSeq(slice_positions_diffs), RaiseRtolInv)
                 THEN [exc |-> "MissingSlices", warnings |-> w]
                 ELSE [exc |-> "ok", warnings |-> w]

\* _check_for_missing_slices(slice_positions).  slice_positions_diffs[0] is
\* evaluated before np.allclose is called: an empty difference list raises
\* IndexError.
check_for_missing_slices(positions) ==
    LET slice_positions_diffs == Diff(SortedInts(positions))
    IN  IF Len(slice_positions_diffs) = 0
        THEN [exc |-> "IndexError", warnings |-> {}]
        ELSE LET w == IF AllClose(slice_positions_diffs,
                                  slice_positions_diffs[1], WarnRtolInv)
                      THEN {} ELSE {"non_uniform_spacing"}
             IN  IF ~AllClose(slice_positions_diffs,
                              slice_positions_diffs[1], RaiseRtolInv)
                 THEN [exc |-> "MissingSlices", warnings |-> w]
                 ELSE [exc |-> "ok", warnings |-> w]

\* A spacing that divides the summed differences by the number of slices.
spacing_per_slice(datasets) ==
    IF Len(datasets) > 1
    THEN LET slice_positions_diffs == Diff(SortedInts(slice_positions(datasets).val))
         IN  Rat(SumSeq(slice_positions_diffs), Len(datasets) * Scale * Scale)
    ELSE Rat(0, 1)

\* _slice_spacing(slice_datasets): a reduced fraction.
slice_spacing(datasets) ==
    IF Len(datasets) > 1
    THEN LET slice_positions_diffs == Diff(SortedInts(slice_positions(datasets).val))
         IN  Rat(SumSeq(slice_positions_diffs),
                 Len(slice_positions_diffs) * Scale * Scale)
    ELSE Rat(0, 1)

RECURSIVE StableOrder(_, _)
\* The indices 1..n in the order a stable ascending sort of keys puts them.
StableOrder(keys, n) ==
    IF n = 0 THEN <<>>
    ELSE LET rest == StableOrder(keys, n - 1)
             p == Cardinality({j \in 1..Len(rest) : keys[rest[j]] <= keys[n]})
         IN  SubSeq(rest, 1, p) \o <<n>> \o SubSeq(rest, p + 1, Len(rest))

\* A sorter that keeps the order of its input.
keep_input_order(datasets) ==
    LET sp == slice_positions(datasets)
    IN  IF sp.exc # "ok" THEN [exc |-> sp.exc, val |-> <<>>]
        ELSE IF \E i, j \in 1..Len(datasets) :
                   i < j /\ sp.val[i] = sp.val[j] /\ datasets[i] # datasets[j]
        THEN [exc |-> "TypeError", val |-> <<>>]
        ELSE [exc |-> "ok", val |-> datasets]

\* sorted(zip(slice_spacing, slice_datasets)) compares (key, dataset) tuples.
\* Two tuples with equal keys are ordered by their datasets: equal datasets
\* leave the tuples equal, unequal ones are compared with <, which datasets
\* do not support (TypeError, Python 3).  Tuples that end up next to each
\* other are compared, so the sort raises exactly when two slices have equal
\* keys and are not equal as datasets.
sort_by_slice_spacing(datasets) ==
    LET sp == slice_positions(datasets)
    IN  IF sp.exc # "ok" THEN [exc |-> sp.exc, val |-> <<>>]
        ELSE IF \E i, j \in 1..Len(datasets) :
                   i < j /\ sp.val[i] = sp.val[j] /\ datasets[i] # datasets[j]
        THEN [exc |-> "TypeError", val |-> <<>>]
        ELSE LET order == StableOrder(sp.val, Len(datasets))
             IN  [exc |-> "ok",
                  val |-> [k \in 1..Len(datasets) |-> datasets[order[k]]]]

---------------------------------------------------------------------------
(* Assembly.                                                               *)

\* A rescale attribute is absent, present and empty (''), or a number.
Absent == [t |-> "none", v |-> 0]
Empty == [t |-> "empty", v |-> 0]
NumV(n) == [t |-> "num", v |-> n]

\* hasattr(dataset, name) and getattr(dataset, name) != ''
HasValue(attr) == attr.t = "num"

\* _requires_rescaling(dataset)
requires_rescaling(dataset) ==
    HasValue(dataset.RescaleSlope) \/ HasValue(dataset.RescaleIntercept)

\* A rescale value whose stand-in is 0 whatever the attribute.
rescale_default_zero(attr, default) == IF attr.t = "num" THEN attr.v ELSE 0

\* getattr(dataset, name, default), then float(x) if x != '' else default
RescaleValue(attr, default) == IF attr.t = "num" THEN attr.v ELSE default

\* The values an integer pixel type holds: storing v keeps its low bits.
Cast(dtype, v) ==
    CASE dtype = "uint8" -> v % 256
      [] dtype = "int8" -> ((v + 128) % 256) - 128
      [] dtype = "uint16" -> v % 65536
      [] dtype = "int16" -> ((v + 32768) % 65536) - 32768
      [] OTHER -> v

NoArray == [set |-> FALSE]

\* _merge_slice_pixel_arrays(slice_datasets): the exception raised, or the
\* array voxels[column][row][k] with its shape and element type.
merge_slice_pixel_arrays(datasets) ==
    LET first_dataset == datasets[1]
    IN  IF first_dataset.Rows.t = "none" \/ first_dataset.Columns.t = "none"
        THEN [exc |-> "AttributeError", val |-> NoArray]
        ELSE
        LET num_rows == first_dataset.Rows.v
            num_columns == first_dataset.Columns.v
            num_slices == Len(datasets)
            sorted == sort_by_slice_spacing(datasets)
        IN  IF sorted.exc # "ok" THEN [exc |-> sorted.exc, val |-> NoArray]
            ELSE IF \E k \in 1..num_slices : requires_rescaling(sorted.val[k])
            THEN [exc |-> "ok",
                  val |-> [set |-> TRUE,
                           dtype |-> "float32",
                           shape |-> <<num_columns, num_rows, num_slices>>,
                           data |-> [c \in 1..num_columns |-> [r \in 1..num_rows |->
                                    [k \in 1..num_slices |->
                                       sorted.val[k].pixel_array.data[r][c]
                                         * RescaleValue(sorted.val[k].RescaleSlope, 1)
                                         + RescaleValue(sorted.val[k].RescaleIntercept, 0)]]]]]
            ELSE [exc |-> "ok",
                  val |-> [set |-> TRUE,
                           dtype |-> first_dataset.pixel_array.dtype,
                           shape |-> <<num_columns, num_rows, num_slices>>,
                           data |-> [c \in 1..num_columns |-> [r \in 1..num_rows |->
                                    [k \in 1..num_slices |->
                                       Cast(first_dataset.pixel_array.dtype,
                                            sorted.val[k].pixel_array.data[r][c])]]]]]

\* _ijk_to_patient_xyz_transform_matrix(slice_datasets): the exception
\* raised, or the 4x4 matrix transform[row][column] of exact numbers.
ijk_to_patient_xyz_transform_matrix(datasets) ==
    LET sorted == sort_by_slice_spacing(datasets)
    IN  IF sorted.exc # "ok" THEN [exc |-> sorted.exc, val |-> NoArray]
        ELSE
        LET first_dataset == sorted.val[1]
        IN  IF first_dataset.ImageOrientationPatient.t = "none"
               \/ first_dataset.PixelSpacing.t = "none"
            THEN [exc |-> "AttributeError", val |-> NoArray]
            ELSE
            LET cos == extract_cosines(first_dataset.ImageOrientationPatient.v)
                row_spacing == first_dataset.PixelSpacing.v[1]
                column_spacing == first_dataset.PixelSpacing.v[2]
                spacing == slice_spacing(datasets)
            IN  [exc |-> "ok",
                 val |-> [set |-> TRUE,
                          m |-> [i \in 1..4 |->
                                  IF i = 4
                                  THEN <<Real(0), Real(0), Real(0), Real(1)>>
                                  ELSE << Times(Rat(cos.row_cosine[i], Scale),
                                                Rat(column_spacing, Scale)),
                                          Times(Rat(cos.column_cosine[i], Scale),
                                                Rat(row_spacing, Scale)),
                                          Times(Rat(cos.slice_cosine[i], Scale * Scale),
                                                spacing),
                                          Real(first_dataset.ImagePositionPatient[i]) >>]]]

---------------------------------------------------------------------------
(* combine_slices as a state machine: one action per call it makes.        *)

Raise(exc, where, w) ==
    /\ pc' = "done"
    /\ outcome' = exc
    /\ raised_in' = where
    /\ warnings' = warnings \cup w
    /\ UNCHANGED <<slice_datasets, voxels, transform>>

\* combine_slices, lines 59-60: the empty list is refused.
CombineSlices ==
    /\ pc = "combine_slices"
    /\ IF Len(slice_datasets) = 0
       THEN Raise("EmptyInput", "combine_slices", {})
       ELSE /\ pc' = "_slice_attribute_equal"
            /\ UNCHANGED <<slice_datasets, outcome, raised_in, warnings, voxels, transform>>

\* _validate_slices_form_uniform_grid, lines 127-142.
ValidateAttributes ==
    /\ pc = "_slice_attribute_equal"
    /\ LET r == PropertyLoop(slice_datasets, 1)
       IN  IF r # "ok"
           THEN Raise(r, "_slice_attribute_equal", {})
           ELSE /\ pc' = "_validate_image_orientation"
                /\ UNCHANGED <<slice_datasets, outcome, raised_in, warnings, voxels, transform>>

\* _validate_slices_form_uniform_grid, line 144.
ValidateImageOrientation ==
    /\ pc = "_validate_image_orientation"
    /\ IF slice_datasets[1].ImageOrientationPatient.t = "none"
       THEN Raise("AttributeError", "_validate_slices_form_uniform_grid", {})
       ELSE LET r == validate_image_orientation(slice_datasets[1].ImageOrientationPatient.v)
            IN  IF r.exc # "ok"
                THEN Raise(r.exc, "_validate_image_orientation", r.warnings)
                ELSE /\ pc' = "_check_for_missing_slices"
                     /\ warnings' = warnings \cup r.warnings
                     /\ UNCHANGED <<slice_datasets, outcome, raised_in, voxels, transform>>

\* _validate_slices_form_uniform_grid, lines 146-147.
CheckForMissingSlices ==
    /\ pc = "_check_for_missing_slices"
    /\ LET r == check_for_missing_slices(slice_positions(slice_datasets).val)
       IN  IF r.exc # "ok"
           THEN Raise(r.exc, "_check_for_missing_slices", r.warnings)
           ELSE /\ pc' = "_merge_slice_pixel_arrays"
                /\ warnings' = warnings \cup r.warnings
                /\ UNCHANGED <<slice_datasets, outcome, raised_in, voxels, transform>>

\* combine_slices, line 64.
MergeSlicePixelArrays ==
    /\ pc = "_merge_slice_pixel_arrays"
    /\ LET r == merge_slice_pixel_arrays(slice_datasets)
       IN  IF r.exc # "ok"
           THEN Raise(r.exc, "_merge_slice_pixel_arrays", {})
           ELSE /\ pc' = "_ijk_to_patient_xyz_transform_matrix"
                /\ voxels' = r.val
                /\ UNCHANGED <<slice_datasets, outcome, raised_in, warnings, transform>>

\* combine_slices, line 65.
IjkToPatientXyzTransformMatrix ==
    /\ pc = "_ijk_to_patient_xyz_transform_matrix"
    /\ LET r == ijk_to_patient_xyz_transform_matrix(slice_datasets)
       IN  IF r.exc # "ok"
           THEN /\ pc' = "done"
                /\ outcome' = r.exc
                /\ raised_in' = "_ijk_to_patient_xyz_transform_matrix"
                /\ voxels' = NoArray
                /\ UNCHANGED <<slice_datasets, warnings, transform>>
           ELSE /\ pc' = "return"
                /\ transform' = r.val
                /\ UNCHANGED <<slice_datasets, outcome, raised_in, warnings, voxels>>

\* combine_slices, line 67.
Return ==
    /\ pc = "return"
    /\ pc' = "done"
    /\ outcome' = "ok"
    /\ UNCHANGED <<slice_datasets, raised_in, warnings, voxels, transform>>

Next ==
    \/ CombineSlices
    \/ ValidateAttributes
    \/ ValidateImageOrientation
    \/ CheckForMissingSlices
    \/ MergeSlicePixelArrays
    \/ IjkToPatientXyzTransformMatrix
    \/ Return

---------------------------------------------------------------------------
(* The inputs: bounded families of slice lists.                            *)

\* The longest slice list.
MaxSlices == 3
\* The largest gap (mm) between neighbouring slice positions.
MaxDiff == 11

\* The element type pydicom gives pixel_array for an encoding.
pixel_dtype(bits_allocated, pixel_representation) ==
    CASE bits_allocated = 8 /\ pixel_representation = 0 -> "uint8"
      [] bits_allocated = 8 /\ pixel_representation = 1 -> "int8"
      [] bits_allocated = 16 /\ pixel_representation = 0 -> "uint16"
      [] OTHER -> "int16"

Axial == <<1000, 0, 0, 0, 1000, 0>>
Tilted == <<1000, 0, 0, 0, 1000, 1>>

\* A one-row, two-column CT slice at position; the pixel values tell the
\* slices and the columns apart.
Slice(position, tag) ==
    [ Modality |-> StrV(<<"C", "T">>),
      SOPClassUID |-> StrV(<<"1", ".", "2">>),
      SeriesInstanceUID |-> StrV(<<"1">>),
      Rows |-> IntV(1),
      Columns |-> IntV(2),
      ImageOrientationPatient |-> SeqV(Axial),
      PixelSpacing |-> SeqV(<<1000, 1000>>),
      PixelRepresentation |-> IntV(1),
      BitsAllocated |-> IntV(16),
      BitsStored |-> IntV(16),
      HighBit |-> IntV(15),
      ImagePositionPatient |-> position,
      RescaleSlope |-> Absent,
      RescaleIntercept |-> Absent,
      pixel_array |-> [dtype |-> pixel_dtype(16, 1), data |-> << <<tag, tag + 10>> >>] ]

Perms(n) == {p \in [1..n -> 1..n] : \A i, j \in 1..n : i # j => p[i] # p[j]}

Permuted(L, p) == [i \in 1..Len(L) |-> L[p[i]]]

SeqsOf(S, n) == [1..n -> S]

\* The slice with one attribute (or one encoding) changed.
Variants(d) ==
    << d,
       [d EXCEPT !.Modality = NoneSeq],
       [d EXCEPT !.Modality = StrV(<<"M", "R">>)],
       [d EXCEPT !.SOPClassUID = StrV(<<"1", "2", ".">>)],
       [d EXCEPT !.SeriesInstanceUID = StrV(<<"2">>)],
       [d EXCEPT !.Rows = None],
       [d EXCEPT !.Rows = IntV(2),
                 !.pixel_array.data = << d.pixel_array.data[1], d.pixel_array.data[1] >>],
       [d EXCEPT !.PixelSpacing = NoneSeq],
       [d EXCEPT !.PixelSpacing = SeqV(<<1001, 1000>>)],
       [d EXCEPT !.PixelSpacing = SeqV(<<1002, 1000>>)],
       [d EXCEPT !.ImageOrientationPatient = NoneSeq],
       [d EXCEPT !.ImageOrientationPatient = SeqV(Tilted)],
       [d EXCEPT !.BitsAllocated = IntV(8), !.BitsStored = IntV(8), !.HighBit = IntV(7),
                 !.pixel_array.dtype = pixel_dtype(8, 1)] >>

\* The orders a list of n slices is given in: every rotation of the list
\* and of its reverse (every order, for up to three slices).
Orders(n) ==
    IF n = 0 THEN {<<>>}
    ELSE { [i \in 1..n |-> IF fwd THEN ((i - 1 + k) % n) + 1 ELSE n - ((i - 1 + k) % n)]
             : k \in 0..(n - 1), fwd \in BOOLEAN }

RECURSIVE PrefixSums(_, _)
PrefixSums(diffs, start) ==
    IF Len(diffs) = 0 THEN <<start>>
    ELSE <<start>> \o PrefixSums(Tail(diffs), start + diffs[1])

Start(list) ==
    /\ slice_datasets = list
    /\ pc = "combine_slices"
    /\ outcome = "running"
    /\ raised_in = "nowhere"
    /\ warnings = {}
    /\ voxels = NoArray
    /\ transform = NoArray

\* Lists whose slices differ in their attributes; the positions are 5 mm
\* apart, ascending or descending.
InitAttr ==
    \E n \in 0..MaxSlices, asc \in BOOLEAN :
    \E v \in SeqsOf(DOMAIN Variants(Slice(<<0, 0, 0>>, 0)), n) :
        Start([i \in 1..n |->
                 LET z == IF asc THEN i ELSE n + 1 - i
                 IN  Variants(Slice(<<0, 0, 5 * z>>, z))[v[i]]])

\* Axial lists with every gap 0..MaxDiff between neighbours.
InitGeom ==
    \E n \in 0..MaxSlices :
    \E g \in SeqsOf(0..MaxDiff, IF n = 0 THEN 0 ELSE n - 1), p \in Orders(n) :
        Start(Permuted([i \in 1..n |-> Slice(<<0, 0, PrefixSums(g, 0)[i]>>, i)], p))

\* Orientations around the tolerances.  The dot product of the cosines is
\* rz*cz/Scale^2; the squared magnitudes are (rx^2 + rz^2)/Scale^2 and
\* (cy^2 + cz^2)/Scale^2.
Orientations ==
    { <<rx, 0, rz, 0, cy, cz>> :
        rx \in {1000, 999}, rz \in {0, 10, 11, 14, 15, 42, 43},
        cy \in {1000, 999, 990}, cz \in {0, 10, 14, 15, 42, 43} }

PixelSpacings == { <<1000, 1000>>, <<500, 2000>> }

\* Lists sharing one orientation and one pixel spacing, 5 mm apart along z,
\* ascending or descending, with or without an in-plane offset per slice.
InitOrient ==
    \E n \in 0..MaxSlices, o \in Orientations, ps \in PixelSpacings,
       asc \in BOOLEAN, y \in {0, 1} :
        Start([i \in 1..n |->
                 [Slice(<<0, y * i, 5 * (IF asc THEN i - 1 ELSE n - i)>>, i)
                    EXCEPT !.ImageOrientationPatient = SeqV(o),
                           !.PixelSpacing = SeqV(ps)]])

Rescales ==
    { <<Absent, Absent>>, <<Empty, Empty>>, <<NumV(2), NumV(100)>>,
      <<NumV(3), Absent>>, <<Empty, NumV(7)>> }

\* Lists whose slices carry rescale values or none, in one of two
\* encodings.
InitPix ==
    \E n \in 0..MaxSlices, rep \in {0, 1} :
    \E rs \in SeqsOf(Rescales, n), p \in Orders(n) :
        Start(Permuted([i \in 1..n |->
                  [Slice(<<0, 0, 5 * i>>, i)
                     EXCEPT !.RescaleSlope = rs[i][1],
                            !.RescaleIntercept = rs[i][2],
                            !.PixelRepresentation = IntV(rep),
                            !.pixel_array.dtype = pixel_dtype(16, rep)]], p))

Init == InitAttr \/ InitGeom \/ InitOrient \/ InitPix

SpecAttr == InitAttr /\ [][Next]_vars
SpecGeom == InitGeom /\ [][Next]_vars
SpecOrient == InitOrient /\ [][Next]_vars
SpecPix == InitPix /\ [][Next]_vars
Spec == Init /\ [][Next]_vars

---------------------------------------------------------------------------
(* combine_slices as one function of its argument: the calls of lines      *)
(* 59-67 in order, ending at the first that raises.                        *)

Failed(exc) == [outcome |-> exc, voxels |-> NoArray, transform |-> NoArray]

combine_slices(datasets) ==
    IF Len(datasets) = 0 THEN Failed("EmptyInput")
    ELSE LET a == PropertyLoop(datasets, 1)
    IN  IF a # "ok" THEN Failed(a)
    ELSE IF datasets[1].ImageOrientationPatient.t = "none" THEN Failed("AttributeError")
    ELSE LET o == validate_image_orientation(datasets[1].ImageOrientationPatient.v)
    IN  IF o.exc # "ok" THEN Failed(o.exc)
    ELSE LET c == check_for_missing_slices(slice_positions(datasets).val)
    IN  IF c.exc # "ok" THEN Failed(c.exc)
    ELSE LET v == merge_slice_pixel_arrays(datasets)
    IN  IF v.exc # "ok" THEN Failed(v.exc)
    ELSE LET t == ijk_to_patient_xyz_transform_matrix(datasets)
    IN  IF t.exc # "ok" THEN Failed(t.exc)
    ELSE [outcome |-> "ok", voxels |-> v.val, transform |-> t.val]

\* The actions and the function agree on every finished call.
ActionsAgree ==
    pc = "done" =>
        LET r == combine_slices(slice_datasets)
        IN  /\ r.outcome = outcome
            /\ r.voxels.set = voxels.set
            /\ r.transform.set = transform.set
            /\ (outcome = "ok" => r.voxels = voxels /\ SameMatrix(r.transform.m, transform.m))

---------------------------------------------------------------------------
(* The vocabulary of the claims, stated from the input list alone.         *)

\* Where the call is, read off pc and the function that raised.
Returned == pc = "done" /\ outcome = "ok"
RaisedIn(f) == pc = "done" /\ raised_in = f

\* The attribute comparison has finished (it passed or it raised).
AttributesCompared ==
    \/ pc \notin {"combine_slices", "_slice_attribute_equal", "done"}
    \/ pc = "done" /\ raised_in # "combine_slices"

\* The orientation validator has finished.
OrientationValidated ==
    \/ pc \in {"_check_for_missing_slices", "_merge_slice_pixel_arrays",
               "_ijk_to_patient_xyz_transform_matrix", "return"}
    \/ pc = "done" /\ raised_in \notin {"combine_slices", "_slice_attribute_equal",
                                        "_validate_slices_form_uniform_grid"}

\* The spacing check has finished.
SpacingChecked ==
    \/ pc \in {"_merge_slice_pixel_arrays", "_ijk_to_patient_xyz_transform_matrix", "return"}
    \/ pc = "done" /\ raised_in \notin {"combine_slices", "_slice_attribute_equal",
                                        "_validate_slices_form_uniform_grid",
                                        "_validate_image_orientation"}

\* Validation has passed and the assembler has been called.
AssemblerCalled ==
    \/ pc \in {"_ijk_to_patient_xyz_transform_matrix", "return"}
    \/ pc = "done" /\ (outcome = "ok" \/ raised_in \in {"_merge_slice_pixel_arrays",
                                                      "_ijk_to_patient_xyz_transform_matrix"})

\* The slice normal of the first slice of the input list, and each slice's
\* sort key: the dot product of its position with that normal.
FirstNormal(L) ==
    Cross(SubSeq(L[1].ImageOrientationPatient.v, 1, 3),
          SubSeq(L[1].ImageOrientationPatient.v, 4, 6))
SortKey(L, i) == Dot(L[i].ImagePositionPatient, FirstNormal(L))

\* The depth index of input slice i under a stable ascending sort by key.
Rank(L, i) ==
    1 + Cardinality({j \in 1..Len(L) : SortKey(L, j) < SortKey(L, i)})
      + Cardinality({j \in 1..(i - 1) : SortKey(L, j) = SortKey(L, i)})

\* The k-th smallest sort key, and the consecutive differences of the keys.
KeyAt(L, k) == SortKey(L, CHOOSE i \in 1..Len(L) : Rank(L, i) = k)
KeyDiff(L, k) == KeyAt(L, k + 1) - KeyAt(L, k)
KeyDiffSum(L) == KeyAt(L, Len(L)) - KeyAt(L, 1)


---------------------------------------------------------------------------
C2_SingleSliceSucceeds ==
    (/\ pc = "done"
     /\ Len(slice_datasets) = 1
     /\ slice_datasets[1].ImageOrientationPatient.t # "none"
     /\ validate_image_orientation(slice_datasets[1].ImageOrientationPatient.v).exc = "ok")
    => /\ outcome = "ok"
       /\ transform.set
       /\ ZeroColumn(transform.m, 3)

\* C4: every finished call either returns both the volume and the transform
\* or fails with one of the five categories and returns neither; the empty
\* list fails with EmptyInput.
C4_CategorizedOutcome ==
    pc = "done" =>
        /\ outcome \in {"ok", "EmptyInput", "GeometryMismatch", "NonOrthogonalOrientation",
                        "InvalidDirectionCosine", "MissingSlices"}
        /\ (Len(slice_datasets) = 0 => outcome = "EmptyInput")
        /\ (outcome = "ok" => voxels.set /\ transform.set)
        /\ (outcome # "ok" => ~voxels.set /\ ~transform.set)

\* Equality of two attribute values as C5 states it: absent equals absent
\* only; numbers and numeric sequences are equal when every element differs
\* by at most 0.001; anything else is equal when exactly equal.
C5_Equal(a, b) ==
    CASE a.t = "none" \/ b.t = "none" -> a.t = b.t
      [] a.t = "int" /\ b.t = "int" -> Abs(a.v - b.v) * 1000 <= 1
      [] a.t = "seq" /\ b.t = "seq" ->
            /\ Len(a.v) = Len(b.v)
            /\ \A i \in 1..Len(a.v) : Abs(a.v[i] - b.v[i]) * 1000 <= Scale
      [] a.t = "str" /\ b.t = "str" -> a.v = b.v
      [] OTHER -> FALSE

C5_Compared ==
    {"Modality", "SOPClassUID", "Rows", "Columns", "ImageOrientationPatient",
     "PixelSpacing", "PixelRepresentation", "BitsAllocated", "BitsStored", "HighBit"}

\* C5: the attribute validator fails with GeometryMismatch exactly when some
\* compared attribute of some slice differs from the first slice's value;
\* SeriesInstanceUID is not compared.
C5_AttributeRule ==
    AttributesCompared =>
        ( (RaisedIn("_slice_attribute_equal") /\ outcome = "GeometryMismatch")
          <=> \E a \in C5_Compared : \E i \in 2..Len(slice_datasets) :
                  ~C5_Equal(slice_datasets[1][a], slice_datasets[i][a]) )

\* C6: on a list that passed validation the sorter never fails and returns
\* the slices in non-decreasing key order, slices with equal keys in their
\* input order.
C6_SorterStable ==
    AssemblerCalled =>
        LET s == sort_by_slice_spacing(slice_datasets)
        IN  /\ ~(RaisedIn("_merge_slice_pixel_arrays") /\ outcome = "TypeError")
            /\ s.exc = "ok"
            /\ \A i \in 1..Len(slice_datasets) :
                   s.val[Rank(slice_datasets, i)] = slice_datasets[i]

\* The first slice in sorted order: the one at depth index 0 of the volume.
SortedFirst(L) == L[CHOOSE i \in 1..Len(L) : Rank(L, i) = 1]

\* The mean of the consecutive key differences, as a fraction.
MeanKeyDiff(L) == Rat(KeyDiffSum(L), (Len(L) - 1) * Scale * Scale)

\* C3 as stated: with two or more slices the spacing check fails with
\* MissingSlices exactly when some consecutive key difference deviates from
\* the mean difference m by more than 1e-1 of |m|.
C3_RelativeToMean ==
    (SpacingChecked /\ Len(slice_datasets) >= 2) =>
        LET n == Len(slice_datasets)
            sum == KeyDiffSum(slice_datasets)
        IN  (RaisedIn("_check_for_missing_slices") /\ outcome = "MissingSlices")
            <=> \E k \in 1..(n - 1) :
                    10 * Abs(KeyDiff(slice_datasets, k) * (n - 1) - sum) > Abs(sum)

\* C3 as amended: the deviation is taken from the first difference d1, not
\* from the mean.  The check fails with MissingSlices exactly when some
\* |d_i - d1| exceeds 1e-1 * |d1|; otherwise it raises nothing; it warns
\* exactly when some |d_i - d1| exceeds 1e-5 * |d1|; and the transform of a
\* call that gets that far has third column slice normal times the mean m.
C3_RelativeToFirst ==
    (SpacingChecked /\ Len(slice_datasets) >= 2) =>
        LET n == Len(slice_datasets)
            d1 == KeyDiff(slice_datasets, 1)
            coarse == \E k \in 1..(n - 1) :
                          10 * Abs(KeyDiff(slice_datasets, k) - d1) > Abs(d1)
            fine == \E k \in 1..(n - 1) :
                          Abs(KeyDiff(slice_datasets, k) - d1) > Abs(d1) \div 100000
            normal == FirstNormal(<<SortedFirst(slice_datasets)>>)
        IN  /\ (RaisedIn("_check_for_missing_slices") /\ outcome = "MissingSlices") <=> coarse
            /\ ~coarse => ~RaisedIn("_check_for_missing_slices")
            /\ ("non_uniform_spacing" \in warnings) <=> fine
            /\ transform.set =>
                  \A i \in 1..3 :
                      SameNumber(transform.m[i][3],
                                 Times(Rat(normal[i], Scale * Scale),
                                       MeanKeyDiff(slice_datasets)))

\* A call returns although its gaps 10 and 11 differ by exactly 1e-1 of the
\* first: the deviation does not exceed the tolerance, and it warns.
C3_Witness ==
    /\ Returned
    /\ Len(slice_datasets) = 3
    /\ KeyDiff(slice_datasets, 1) = 10 * Scale * Scale
    /\ KeyDiff(slice_datasets, 2) = 11 * Scale * Scale
    /\ "non_uniform_spacing" \in warnings

\* What C7 and C8 call a slice that carries a rescale value, and the slope
\* and intercept that apply to a slice.
Carries(d) == d.RescaleSlope.t = "num" \/ d.RescaleIntercept.t = "num"
SlopeOf(d) == IF d.RescaleSlope.t = "num" THEN d.RescaleSlope.v ELSE 1
InterceptOf(d) == IF d.RescaleIntercept.t = "num" THEN d.RescaleIntercept.v ELSE 0

\* C7: when some slice carries a rescale slope or intercept the volume is
\* float32 and volume[c][r][k] = raw_k[r][c] * slope_k + intercept_k with
\* each slice's own values, 1 and 0 standing in for absent or empty ones.
C7_RescaledAssembly ==
    (voxels.set /\ \E i \in 1..Len(slice_datasets) : Carries(slice_datasets[i])) =>
        /\ voxels.dtype = "float32"
        /\ \A i \in 1..Len(slice_datasets) :
           \A r \in 1..slice_datasets[1].Rows.v :
           \A c \in 1..slice_datasets[1].Columns.v :
               voxels.data[c][r][Rank(slice_datasets, i)]
                 = slice_datasets[i].pixel_array.data[r][c] * SlopeOf(slice_datasets[i])
                   + InterceptOf(slice_datasets[i])

\* Three slices given out of order are assembled: one carries a slope and
\* an intercept, one carries neither, one has an empty slope.
C7_Witness ==
    /\ Returned
    /\ Len(slice_datasets) = 3
    /\ Rank(slice_datasets, 1) # 1
    /\ \E i, j, k \in 1..3 :
          /\ slice_datasets[i].RescaleSlope.t = "num"
          /\ slice_datasets[i].RescaleIntercept.t = "num"
          /\ slice_datasets[j].RescaleSlope.t = "none"
          /\ slice_datasets[j].RescaleIntercept.t = "none"
          /\ slice_datasets[k].RescaleSlope.t = "empty"
    /\ voxels.dtype = "float32"

\* C8: when no slice carries a rescale value the volume has shape
\* (columns, rows, slices) and the first slice's pixel type, and
\* volume[c][r][k] = pixel_k[r][c]; every slice has a depth index of its own.
C8_PlainAssembly ==
    (voxels.set /\ \A i \in 1..Len(slice_datasets) : ~Carries(slice_datasets[i])) =>
        LET n == Len(slice_datasets)
            rows == slice_datasets[1].Rows.v
            columns == slice_datasets[1].Columns.v
        IN  /\ voxels.shape = <<columns, rows, n>>
            /\ DOMAIN voxels.data = 1..columns
            /\ \A c \in 1..columns : DOMAIN voxels.data[c] = 1..rows
            /\ \A c \in 1..columns : \A r \in 1..rows : DOMAIN voxels.data[c][r] = 1..n
            /\ voxels.dtype = slice_datasets[1].pixel_array.dtype
            /\ {Rank(slice_datasets, i) : i \in 1..n} = 1..n
            /\ \A i \in 1..n : \A r \in 1..rows : \A c \in 1..columns :
                   voxels.data[c][r][Rank(slice_datasets, i)]
                     = slice_datasets[i].pixel_array.data[r][c]

\* Three unsigned slices without rescale values, given out of order, are
\* assembled.
C8_Witness ==
    /\ Returned
    /\ Len(slice_datasets) = 3
    /\ Rank(slice_datasets, 1) = 3
    /\ \A i \in 1..3 : ~Carries(slice_datasets[i])
    /\ voxels.dtype = "uint16"

\* The two slices of the example of C9, in either order.
C9_Example ==
    /\ Len(slice_datasets) = 2
    /\ \A i \in 1..2 :
          /\ slice_datasets[i].ImageOrientationPatient = SeqV(<<1000, 0, 0, 0, 1000, 0>>)
          /\ slice_datasets[i].PixelSpacing = SeqV(<<1000, 1000>>)
    /\ {slice_datasets[i].ImagePositionPatient : i \in 1..2} = {<<0, 0, 0>>, <<0, 0, 5>>}

\* C9: with s the first slice in sorted order, the transform has column 0 =
\* row cosine of s * column spacing of s, column 1 = column cosine of s * row
\* spacing of s, column 2 = slice normal of s * mean key difference, column
\* 3 = position of s, and bottom row (0,0,0,1); on the example the columns
\* are [1,0,0], [0,1,0], [0,0,5] and the translation is [0,0,0].
C9_AffineTransform ==
    transform.set =>
        LET s == SortedFirst(slice_datasets)
            row == SubSeq(s.ImageOrientationPatient.v, 1, 3)
            col == SubSeq(s.ImageOrientationPatient.v, 4, 6)
            normal == Cross(row, col)
            m == transform.m
            I == [i \in 1..4 |-> [j \in 1..4 |-> IF i = j THEN 1 ELSE 0]]
        IN  /\ \A i \in 1..3 :
                  /\ SameNumber(m[i][1], Times(Rat(row[i], Scale), Rat(s.PixelSpacing.v[2], Scale)))
                  /\ SameNumber(m[i][2], Times(Rat(col[i], Scale), Rat(s.PixelSpacing.v[1], Scale)))
                  /\ SameNumber(m[i][3], Times(Rat(normal[i], Scale * Scale),
                                               MeanKeyDiff(slice_datasets)))
                  /\ SameNumber(m[i][4], Real(s.ImagePositionPatient[i]))
            /\ \A j \in 1..4 : SameNumber(m[4][j], Real(I[4][j]))
            /\ C9_Example =>
                  /\ \A i \in 1..3 : \A j \in 1..2 : SameNumber(m[i][j], Real(I[i][j]))
                  /\ \A i \in 1..3 : SameNumber(m[i][3], Real(5 * I[i][3]))
                  /\ ZeroColumn(m, 4)

\* The example is assembled from the list that gives the slice at (0,0,5)
\* first.
C9_Witness ==
    /\ Returned
    /\ C9_Example
    /\ slice_datasets[1].ImagePositionPatient = <<0, 0, 5>>

\* The deviations C10 speaks of, from the orientation of the first slice of
\* the input list.  In units of 1/Scale^2 the dot product d exceeds 1e-4
\* when |d| > Scale^2/10^4 and 1e-8 when d # 0 (Scale^2/10^8 < 1).  A
\* magnitude sqrt(q)/Scale deviates from 1 by at most 1e-4 when
\* 9999^2 <= q*10^8/Scale^2 <= 10001^2, and by at most 1e-8 when
\* q = Scale^2 (the next integers are more than 1e-8 away).
C10_Row == SubSeq(slice_datasets[1].ImageOrientationPatient.v, 1, 3)
C10_Column == SubSeq(slice_datasets[1].ImageOrientationPatient.v, 4, 6)
C10_DotFails == Abs(Dot(C10_Row, C10_Column)) * 10000 > Scale * Scale
C10_DotWarns == ~C10_DotFails /\ Dot(C10_Row, C10_Column) # 0
C10_MagnitudeFails(v) ==
    LET q == Dot(v, v) * (100000000 \div (Scale * Scale))
    IN  q < 9999 * 9999 \/ q > 10001 * 10001
C10_MagnitudeWarns(v) == ~C10_MagnitudeFails(v) /\ Dot(v, v) # Scale * Scale

\* C10: the orientation validator checks orthogonality, then the row
\* magnitude, then the column magnitude, and stops at the first failure:
\* NonOrthogonalOrientation for the first, InvalidDirectionCosine for the
\* others; a check that passes with a deviation above 1e-8 warns;
\* [1,0,0,0,0.99,0] fails with InvalidDirectionCosine.
C10_OrientationValidator ==
    OrientationValidated =>
        LET here == RaisedIn("_validate_image_orientation")
        IN  /\ (here /\ outcome = "NonOrthogonalOrientation") <=> C10_DotFails
            /\ (here /\ outcome = "InvalidDirectionCosine")
                 <=> (~C10_DotFails /\ (C10_MagnitudeFails(C10_Row) \/ C10_MagnitudeFails(C10_Column)))
            /\ here <=> (C10_DotFails \/ C10_MagnitudeFails(C10_Row) \/ C10_MagnitudeFails(C10_Column))
            /\ ("orthogonal" \in warnings) <=> C10_DotWarns
            /\ ("row_magnitude" \in warnings)
                 <=> (~C10_DotFails /\ C10_MagnitudeWarns(C10_Row))
            /\ ("column_magnitude" \in warnings)
                 <=> (~C10_DotFails /\ ~C10_MagnitudeFails(C10_Row) /\ C10_MagnitudeWarns(C10_Column))
            /\ (slice_datasets[1].ImageOrientationPatient.v = <<1000, 0, 0, 0, 990, 0>>
                  => here /\ outcome = "InvalidDirectionCosine")

\* An orientation that is both non-orthogonal and not of unit length has
\* been refused as non-orthogonal.
C10_Witness ==
    /\ RaisedIn("_validate_image_orientation")
    /\ outcome = "NonOrthogonalOrientation"
    /\ C10_MagnitudeFails(C10_Row)
    /\ C10_MagnitudeFails(C10_Column)

====
